---- MODULE Spec2Model ----
(***************************************************************************)
(* Model of src/geo.py: the Jan Aushadhi store geocoder.                   *)
(*                                                                         *)
(* Strings are sequences of one-character strings, so that strip, replace, *)
(* split/join and the f-string templates are computed character by         *)
(* character.  Spreadsheet cells are NaN, text, or a number; str() of a    *)
(* number is computed digit by digit.                                      *)
(***************************************************************************)
EXTENDS Integers, Sequences, FiniteSets, TLC

VARIABLES
    pc,             \* position of the script: nofile, form, loop, geopy, http, postal, done
    df,             \* the uploaded table (pd.read_excel)
    max_records,    \* st.number_input
    delay_seconds,  \* st.slider
    df_to_process,  \* df.head(records_to_process)
    results,        \* the list `results` of the batch loop
    index,          \* number of rows the loop has finished (0-based index of the next row)
    origin,         \* for each appended result, the 0-based index of the row it was produced for
    clean_addr,     \* geocode_address_free: clean_addr of the running request
    clean_pin,      \* geocode_address_free: clean_pin of the running request
    k,              \* 1-based position in address_formats / address_variants
    log,            \* sleeps and provider calls of the current row, in program order
    lastResp,       \* what the latest provider call of the current row returned or raised
    processed_df,   \* st.session_state.processed_df (absent and None are not told apart)
    file_name,      \* st.session_state.file_name
    uploaded_file,  \* the file in st.file_uploader: its name and which upload it is
    uploads,        \* number of files chosen so far in this session
    processed_of,   \* which upload processed_df was computed from (0: none)
    stub,           \* the providers' fixed answers, by place, when they are stubbed
    prev            \* the request before the running one: its inputs and its calls

\* the session, as far as the upload is concerned
session == <<file_name, uploaded_file, uploads, processed_of>>

vars == <<pc, df, max_records, delay_seconds, df_to_process, results, index, origin,
          clean_addr, clean_pin, k, log, lastResp, processed_df, session, stub, prev>>

(***************************************************************************)
(* Bounds of the model.                                                    *)
(***************************************************************************)
MaxRows == 2
MaxUploads == 2

(***************************************************************************)
(* Optional values (Python None).                                          *)
(***************************************************************************)
None == [some |-> FALSE]
Some(x) == [some |-> TRUE, val |-> x]

(***************************************************************************)
(* Python string operations, on sequences of characters.                   *)
(***************************************************************************)
IsSpace(c) == c = " "

IsDigit(c) == c \in {"0", "1", "2", "3", "4", "5", "6", "7", "8", "9"}

IsAlpha(c) == ~IsSpace(c) /\ ~IsDigit(c) /\ c \notin {",", ".", "(", ")", ":"}

RECURSIVE LStrip(_)
LStrip(s) == IF s # <<>> /\ IsSpace(Head(s)) THEN LStrip(Tail(s)) ELSE s

RECURSIVE RStrip(_)
RStrip(s) ==
    IF s # <<>> /\ IsSpace(s[Len(s)]) THEN RStrip(SubSeq(s, 1, Len(s) - 1)) ELSE s

\* str.strip()
Strip(s) == RStrip(LStrip(s))

\* str.replace(',', ' ')
ReplaceComma(s) == [j \in 1..Len(s) |-> IF s[j] = "," THEN " " ELSE s[j]]

\* the first whitespace-free run of s (s does not start with whitespace)
RECURSIVE FirstWord(_)
FirstWord(s) ==
    IF s = <<>> \/ IsSpace(Head(s)) THEN <<>> ELSE <<Head(s)>> \o FirstWord(Tail(s))

\* str.split(): the whitespace-separated words, none of them empty
RECURSIVE Split(_)
Split(s) ==
    LET t == LStrip(s)
        w == FirstWord(t)
    IN  IF t = <<>> THEN <<>>
        ELSE <<w>> \o Split(SubSeq(t, Len(w) + 1, Len(t)))

\* ' '.join(words)
RECURSIVE Join(_)
Join(words) ==
    IF words = <<>> THEN <<>>
    ELSE IF Len(words) = 1 THEN words[1]
    ELSE words[1] \o <<" ">> \o Join(Tail(words))

DigitChars == <<"0", "1", "2", "3", "4", "5", "6", "7", "8", "9">>

\* str() of a non-negative integer
RECURSIVE Digits(_)
Digits(n) ==
    IF n < 10 THEN <<DigitChars[n + 1]>>
    ELSE Digits(n \div 10) \o <<DigitChars[(n % 10) + 1]>>

\* str() of a cell value: text as it is, an int as its digits, a float with
\* an integral value as its digits followed by ".0"
PyStr(cell) ==
    CASE cell.kind = "str"   -> cell.s
      [] cell.kind = "int"   -> Digits(cell.n)
      [] cell.kind = "float" -> Digits(cell.n) \o <<".", "0">>
      [] OTHER               -> <<"n", "a", "n">>

\* pd.notna
NotNa(cell) == cell.kind # "nan"

\* float(s) succeeds (digit strings only are modelled as numeric)
IsNumeric(s) == s # <<>> /\ \A j \in 1..Len(s) : IsDigit(s[j])

DigitValue(c) == CHOOSE d \in 0..9 : DigitChars[d + 1] = c

\* float(s) of a digit string
RECURSIVE ParseFloat(_)
ParseFloat(s) ==
    IF Len(s) = 1 THEN DigitValue(s[1])
    ELSE 10 * ParseFloat(SubSeq(s, 1, Len(s) - 1)) + DigitValue(s[Len(s)])

India == <<"I", "n", "d", "i", "a">>

(***************************************************************************)
(* clean_address, and the two candidate lists.                             *)
(***************************************************************************)
clean_address(address, pin_code) ==
    LET a1 == Strip(address)
        p1 == Strip(pin_code)
        a2 == ReplaceComma(a1)
        a3 == Join(Split(a2))
    IN  <<a3, p1>>

\* a variant of address_formats that keeps the pin-only format for the end
address_formats_PinLast(a, p) ==
    << a \o <<" ">> \o p \o <<" ">> \o India,
       a \o <<",", " ">> \o p \o <<",", " ">> \o India,
       a \o <<" ">> \o India \o <<" ">> \o p,
       a \o <<",", " ">> \o India,
       a,
       p \o <<",", " ">> \o India >>

address_formats(a, p) ==
    << a \o <<" ">> \o p \o <<" ">> \o India,
       a \o <<",", " ">> \o p \o <<",", " ">> \o India,
       a \o <<" ">> \o India \o <<" ">> \o p,
       a \o <<",", " ">> \o India,
       p \o <<",", " ">> \o India,
       a >>

\* a variant of address_variants with a sixth search, for the pin alone
address_variants_WithPinAlone(a, p) ==
    << a \o <<" ">> \o p \o <<" ">> \o India,
       a \o <<",", " ">> \o p,
       a \o <<" ">> \o India,
       p \o <<" ">> \o India,
       a,
       p >>

address_variants(a, p) ==
    << a \o <<" ">> \o p \o <<" ">> \o India,
       a \o <<",", " ">> \o p \o <<",", " ">> \o India,
       a \o <<" ">> \o India,
       p \o <<" ">> \o India,
       a >>

(***************************************************************************)
(* The result dictionaries.                                                *)
(***************************************************************************)
\* a variant of GeopySuccess that stores the coordinates the wrong way round
GeopySuccess_Swapped(location) ==
    [latitude |-> Some(location.longitude), longitude |-> Some(location.latitude),
     formatted_address |-> Some(location.address),
     status |-> "SUCCESS", service |-> "Nominatim_Geopy"]

\* src/geo.py:57-63
GeopySuccess(location) ==
    [latitude |-> Some(location.latitude), longitude |-> Some(location.longitude),
     formatted_address |-> Some(location.address),
     status |-> "SUCCESS", service |-> "Nominatim_Geopy"]

\* result.get('display_name', '')
DisplayName(result) ==
    IF "display_name" \in DOMAIN result THEN result.display_name ELSE <<>>

\* src/geo.py:92
HttpSuccess(result) ==
    [latitude |-> Some(ParseFloat(result.lat)), longitude |-> Some(ParseFloat(result.lon)),
     formatted_address |-> Some(DisplayName(result)),
     status |-> "SUCCESS", service |-> "Nominatim_HTTP"]

\* f"Near {display_name} (Pin Code: {pin_code})"
NearText(name, pin_code) ==
    <<"N", "e", "a", "r", " ">> \o name
        \o <<" ", "(", "P", "i", "n", " ", "C", "o", "d", "e", ":", " ">>
        \o pin_code \o <<")">>

\* src/geo.py:106
PostalSuccess(result, pin_code) ==
    [latitude |-> Some(ParseFloat(result.lat)), longitude |-> Some(ParseFloat(result.lon)),
     formatted_address |-> Some(NearText(DisplayName(result), pin_code)),
     status |-> "SUCCESS", service |-> "Nominatim_PostalCode"]

\* a variant of NoResults that leaves an empty string as the address
NoResults_EmptyAddress ==
    [latitude |-> None, longitude |-> None, formatted_address |-> Some(<<>>),
     status |-> "ERROR: No results found", service |-> "None"]

\* src/geo.py:109
NoResults ==
    [latitude |-> None, longitude |-> None, formatted_address |-> None,
     status |-> "ERROR: No results found", service |-> "None"]

\* a variant of MissingInput that words the status the way the other
\* variants of the tool do
MissingInput_Failed ==
    [latitude |-> None, longitude |-> None, formatted_address |-> None,
     status |-> "FAILED", service |-> "None"]

\* a variant of MissingInput that fills the coordinates with zeros
MissingInput_Zeros ==
    [latitude |-> Some(0), longitude |-> Some(0), formatted_address |-> None,
     status |-> "ERROR: Missing address or pin", service |-> "None"]

\* src/geo.py:179
MissingInput ==
    [latitude |-> None, longitude |-> None, formatted_address |-> None,
     status |-> "ERROR: Missing address or pin", service |-> "None"]

(***************************************************************************)
(* What the providers may answer.                                          *)
(***************************************************************************)
\* geocoder.geocode: a Location, None, or an exception
GeoResponses ==
    { [kind |-> "location", latitude |-> 12, longitude |-> 77, address |-> <<"B", "l", "r">>],
      [kind |-> "none"],
      [kind |-> "timeout"],
      [kind |-> "service_error"],
      [kind |-> "exception"] }

\* the elements a JSON answer may hold
ItemFull == [lat |-> <<"2", "8">>, lon |-> <<"7", "6">>, display_name |-> <<"D", "e", "l">>]
ItemNoLat == [lon |-> <<"x">>, display_name |-> <<"D", "e", "l">>]

\* requests.get: an exception, or a response with a status code and a body
\* that is JSON (a list) or not
HttpResponses ==
    { [kind |-> "timeout"],
      [kind |-> "exception"],
      [kind |-> "response", status_code |-> 503, json |-> TRUE, data |-> <<>>],
      [kind |-> "response", status_code |-> 200, json |-> FALSE, data |-> <<>>],
      [kind |-> "response", status_code |-> 200, json |-> TRUE, data |-> <<>>] }
    \cup { [kind |-> "response", status_code |-> 200, json |-> TRUE, data |-> <<it>>] :
             it \in {ItemFull, ItemNoLat} }

NoResponse == [kind |-> "nocall"]

\* lines 88-92 and 102-106 reach their return statement: status 200, a body
\* that parses, a non-empty list, and a first element whose lat and lon
\* exist and convert with float()
HttpFound(resp) ==
    /\ resp.kind = "response"
    /\ resp.status_code = 200
    /\ resp.json
    /\ resp.data # <<>>
    /\ "lat" \in DOMAIN resp.data[1]
    /\ "lon" \in DOMAIN resp.data[1]
    /\ IsNumeric(resp.data[1].lat)
    /\ IsNumeric(resp.data[1].lon)

\* lines 82-94 and 96-108 leave the try block through the except clause
HttpRaises(resp) ==
    \/ resp.kind \in {"timeout", "exception"}
    \/ /\ resp.kind = "response"
       /\ resp.status_code = 200
       /\ \/ ~resp.json
          \/ /\ resp.data # <<>>
             /\ ~HttpFound(resp)

GeopyFound(resp) == resp.kind = "location"

GeopyRaises(resp) == resp.kind \in {"timeout", "service_error", "exception"}

(***************************************************************************)
(* Control flow of the two candidate loops.  Each operator gives the       *)
(* position the code is at after the k-th candidate of n did not return.   *)
(***************************************************************************)
\* a variant of AfterGeopy that hands over to try_alternative_geocoder after
\* the first format that did not return
AfterGeopy_HandsOverEarly(kk, n) == [pc |-> "http", k |-> 1]

\* src/geo.py:52 and 66: the next address_format, or try_alternative_geocoder
AfterGeopy(kk, n) ==
    IF kk < n THEN [pc |-> "geopy", k |-> kk + 1] ELSE [pc |-> "http", k |-> 1]

\* a variant of OnGeopyException that tries the same format again
OnGeopyException_Retry(kk, n) == [pc |-> "geopy", k |-> kk]

\* src/geo.py:64-65: except (...): continue
OnGeopyException(kk, n) == AfterGeopy(kk, n)

\* a variant of AfterHttp that accepts pins of 4 characters
AfterHttp_FourLong(kk, n, pin_code) ==
    IF kk < n THEN [pc |-> "http", k |-> kk + 1]
    ELSE IF pin_code # <<>> /\ Len(pin_code) >= 4 THEN [pc |-> "postal", k |-> 1]
    ELSE [pc |-> "return", k |-> 1]

\* src/geo.py:81 and 95: the next address_variant, then the postal-code
\* lookup if pin_code is non-empty and at least 5 long, else line 109
AfterHttp(kk, n, pin_code) ==
    IF kk < n THEN [pc |-> "http", k |-> kk + 1]
    ELSE IF pin_code # <<>> /\ Len(pin_code) >= 5 THEN [pc |-> "postal", k |-> 1]
    ELSE [pc |-> "return", k |-> 1]

\* a variant of OnHttpException that gives the request up
OnHttpException_GivesUp(kk, n, pin_code) == [pc |-> "return", k |-> 1]

\* src/geo.py:93-94: except Exception: continue
OnHttpException(kk, n, pin_code) == AfterHttp(kk, n, pin_code)

\* src/geo.py:107-109: except Exception: pass, then the final return
AfterPostal == [pc |-> "return", k |-> 1]

(***************************************************************************)
(* The log of a row: time.sleep and the provider calls, in program order.  *)
(***************************************************************************)
\* a variant of SleepEvent that sleeps the default second whatever the slider says
SleepEvent_OneSecond(delay) == [ev |-> "sleep", secs |-> 1]

\* time.sleep(delay), src/geo.py:54, 86, 100
SleepEvent(delay) == [ev |-> "sleep", secs |-> delay]

\* a provider call: which client, and which candidate of its list (1-based)
CallEvent(provider, cand) == [ev |-> "call", provider |-> provider, cand |-> cand]

(***************************************************************************)
(* The batch driver's pure parts.                                          *)
(***************************************************************************)
\* src/geo.py:163
records_to_process(m, n) == IF m = 0 THEN n ELSE IF m < n THEN m ELSE n

\* src/geo.py:164: df.head(n)
DfHead(d, n) == SubSeq(d, 1, n)

\* src/geo.py:172-173: the text of a cell, "" for a missing one
CellText(cell) == IF NotNa(cell) THEN PyStr(cell) ELSE <<>>

\* a variant of Concat that joins the results in reverse order
Concat_Reversed(rows, res) ==
    [j \in 1..Len(rows) |-> [row |-> rows[j], result |-> res[Len(res) + 1 - j]]]

\* src/geo.py:190: pd.concat([...], axis=1) of two frames indexed 0..n-1
Concat(rows, res) ==
    [j \in 1..Len(rows) |-> [row |-> rows[j], result |-> res[j]]]

(***************************************************************************)
(* Inputs.                                                                 *)
(***************************************************************************)
Na == [kind |-> "nan"]
Text(s) == [kind |-> "str", s |-> s]
IntCell(n) == [kind |-> "int", n |-> n]
FloatCell(n) == [kind |-> "float", n |-> n]

\* the rows a spreadsheet may hold: both cells missing; both blank; a short
\* address; an address with a comma and a pin read from a numeric column;
\* an address of punctuation only with a short pin
RowInputs ==
    { [address |-> Na, pin |-> Na],
      [address |-> Text(<<" ", " ">>), pin |-> Text(<<" ">>)],
      [address |-> Text(<<"a", "b">>), pin |-> IntCell(110001)],
      [address |-> Text(<<"M", "G", " ", "R", "d", ",", " ", "X">>), pin |-> FloatCell(560001)],
      [address |-> Text(<<",">>), pin |-> Text(<<"1", "1", "0", "0">>)] }

Tables == UNION { [1..n -> RowInputs] : n \in 0..MaxRows }

\* st.slider(min_value=1, max_value=5)
MinDelay == 1
MaxDelay == 5
Delays == {MinDelay, MaxDelay}

\* names of uploaded files
FirstName == "stores.xlsx"
Names == {FirstName, "other.xlsx"}

\* the providers are not stubbed
NoStub == <<>>

(***************************************************************************)
(* The state machine.                                                      *)
(***************************************************************************)
Init ==
    /\ pc = "nofile"
    /\ df = <<>>
    /\ max_records = 0
    /\ delay_seconds = MinDelay
    /\ df_to_process = <<>>
    /\ results = <<>>
    /\ index = 0
    /\ origin = <<>>
    /\ clean_addr = <<>>
    /\ clean_pin = <<>>
    /\ k = 1
    /\ log = <<>>
    /\ lastResp = NoResponse
    /\ processed_df = None
    /\ file_name = None
    /\ uploaded_file = None
    /\ uploads = 0
    /\ processed_of = 0
    /\ stub = NoStub
    /\ prev = None

\* src/geo.py:131-141: the script's run with a file in the uploader.  The
\* stored results are cleared when the file's name is not the stored one
\* (file_name is None exactly when processed_df is absent).
ChooseFile(name, t) ==
    /\ uploads' = uploads + 1
    /\ uploaded_file' = Some([name |-> name, id |-> uploads + 1])
    /\ IF file_name # Some(name)
       THEN /\ processed_df' = None
            /\ processed_of' = 0
            /\ file_name' = Some(name)
       ELSE UNCHANGED <<processed_df, processed_of, file_name>>
    /\ df' = t
    /\ pc' = "form"
    /\ UNCHANGED <<df_to_process, results, index, origin, clean_addr, clean_pin, k, log,
                   lastResp, stub, prev>>

\* src/geo.py:131-141: the first file of the session is uploaded and read
Upload(t) ==
    /\ pc = "nofile"
    /\ uploads = 0
    /\ ChooseFile(FirstName, t)
    /\ UNCHANGED <<max_records, delay_seconds>>

\* src/geo.py:131-141: another file is put in the uploader; the widgets of
\* the form are made anew
Reupload(name, t) ==
    /\ pc \in {"nofile", "form"}
    /\ uploads >= 1
    /\ uploads < MaxUploads
    /\ ChooseFile(name, t)
    /\ max_records' = 0
    /\ delay_seconds' = MinDelay

\* src/geo.py:131-132, 198-200, 248-252: the file is taken out of the
\* uploader; the script runs with uploaded_file None and touches nothing of
\* the session
RemoveFile ==
    /\ pc = "form"
    /\ uploaded_file' = None
    /\ df' = <<>>
    /\ max_records' = 0
    /\ delay_seconds' = MinDelay
    /\ pc' = "nofile"
    /\ UNCHANGED <<df_to_process, results, index, origin, clean_addr, clean_pin, k, log,
                   lastResp, processed_df, file_name, uploads, processed_of, stub, prev>>

\* src/geo.py:193: st.rerun(); the script starts again with the same file,
\* its locals gone
Rerun ==
    /\ pc = "done"
    /\ pc' = "form"
    /\ df_to_process' = <<>>
    /\ results' = <<>>
    /\ index' = 0
    /\ origin' = <<>>
    /\ clean_addr' = <<>>
    /\ clean_pin' = <<>>
    /\ k' = 1
    /\ log' = <<>>
    /\ lastResp' = NoResponse
    /\ UNCHANGED <<df, max_records, delay_seconds, processed_df, session, stub, prev>>

\* src/geo.py:156-170: the widgets' values, the button, and the loop's setup
StartGeocoding(m, d) ==
    /\ pc = "form"
    /\ max_records' = m
    /\ delay_seconds' = d
    /\ df_to_process' = DfHead(df, records_to_process(m, Len(df)))
    /\ results' = <<>>
    /\ origin' = <<>>
    /\ index' = 0
    /\ pc' = "loop"
    /\ UNCHANGED <<df, clean_addr, clean_pin, k, log, lastResp, processed_df,
                   session, stub, prev>>

\* the statement that ends a row: results.append(result), then the next row
AppendResult(result) ==
    /\ results' = Append(results, result)
    /\ origin' = Append(origin, index)
    /\ index' = index + 1
    /\ pc' = "loop"

\* a variant of Continue in which a request that found nothing leaves no
\* result behind
Continue_DropsRow(next) ==
    IF next.pc = "return"
    THEN /\ index' = index + 1
         /\ pc' = "loop"
         /\ k' = next.k
         /\ UNCHANGED <<results, origin>>
    ELSE /\ pc' = next.pc
         /\ k' = next.k
         /\ UNCHANGED <<results, origin, index>>

\* where the request goes after a candidate: on, or out with NoResults
Continue(next) ==
    IF next.pc = "return"
    THEN AppendResult(NoResults) /\ k' = next.k
    ELSE /\ pc' = next.pc
         /\ k' = next.k
         /\ UNCHANGED <<results, origin, index>>

\* src/geo.py:171-174, 178-180: a row with an empty address or pin text
RejectRow ==
    /\ pc = "loop"
    /\ index < Len(df_to_process)
    /\ LET row == df_to_process[index + 1]
           address == CellText(row.address)
           pin_code == CellText(row.pin)
       IN  /\ ~(address # <<>> /\ pin_code # <<>>)
           /\ AppendResult(MissingInput)
    /\ log' = <<>>
    /\ lastResp' = NoResponse
    /\ UNCHANGED <<df, max_records, delay_seconds, df_to_process, clean_addr, clean_pin,
                   k, processed_df, session, stub, prev>>

\* a variant of EnterResolver in which the loop over address_formats goes
\* on from where the request before stopped
EnterResolver_ResumesPosition ==
    /\ pc = "loop"
    /\ index < Len(df_to_process)
    /\ LET row == df_to_process[index + 1]
           address == CellText(row.address)
           pin_code == CellText(row.pin)
           cleaned == clean_address(address, pin_code)
       IN  /\ address # <<>> /\ pin_code # <<>>
           /\ clean_addr' = cleaned[1]
           /\ clean_pin' = cleaned[2]
    /\ pc' = "geopy"
    /\ k' = k
    /\ log' = <<>>
    /\ lastResp' = NoResponse
    /\ UNCHANGED <<df, max_records, delay_seconds, df_to_process, results, index, origin,
                   processed_df, session, stub>>

\* src/geo.py:171-176, 42-51: a row that is handed to geocode_address_free
EnterResolver ==
    /\ pc = "loop"
    /\ index < Len(df_to_process)
    /\ LET row == df_to_process[index + 1]
           address == CellText(row.address)
           pin_code == CellText(row.pin)
           cleaned == clean_address(address, pin_code)
       IN  /\ address # <<>> /\ pin_code # <<>>
           /\ clean_addr' = cleaned[1]
           /\ clean_pin' = cleaned[2]
    /\ pc' = "geopy"
    /\ k' = 1
    /\ log' = <<>>
    /\ lastResp' = NoResponse
    /\ UNCHANGED <<df, max_records, delay_seconds, df_to_process, results, index, origin,
                   processed_df, session, stub>>

\* src/geo.py:52-66: one pass of the loop over address_formats
GeopyCall(resp) ==
    /\ pc = "geopy"
    /\ LET formats == address_formats(clean_addr, clean_pin)
       IN  /\ log' = log \o <<SleepEvent(delay_seconds), CallEvent("geopy", k)>>
           /\ lastResp' = resp
           /\ IF GeopyFound(resp)
              THEN AppendResult(GeopySuccess(resp)) /\ UNCHANGED k
              ELSE IF GeopyRaises(resp)
              THEN Continue(OnGeopyException(k, Len(formats)))
              ELSE Continue(AfterGeopy(k, Len(formats)))
    /\ UNCHANGED <<df, max_records, delay_seconds, df_to_process, clean_addr, clean_pin,
                   processed_df, session, stub, prev>>

\* src/geo.py:81-95: one pass of the loop over address_variants
HttpCall(resp) ==
    /\ pc = "http"
    /\ LET variants == address_variants(clean_addr, clean_pin)
       IN  /\ log' = log \o <<SleepEvent(delay_seconds), CallEvent("http", k)>>
           /\ lastResp' = resp
           /\ IF HttpFound(resp)
              THEN AppendResult(HttpSuccess(resp.data[1])) /\ UNCHANGED k
              ELSE IF HttpRaises(resp)
              THEN Continue(OnHttpException(k, Len(variants), clean_pin))
              ELSE Continue(AfterHttp(k, Len(variants), clean_pin))
    /\ UNCHANGED <<df, max_records, delay_seconds, df_to_process, clean_addr, clean_pin,
                   processed_df, session, stub, prev>>

\* src/geo.py:96-109: the postal-code lookup
PostalCall(resp) ==
    /\ pc = "postal"
    /\ log' = log \o <<SleepEvent(delay_seconds), CallEvent("postal", k)>>
    /\ lastResp' = resp
    /\ IF HttpFound(resp)
       THEN AppendResult(PostalSuccess(resp.data[1], clean_pin)) /\ UNCHANGED k
       ELSE Continue(AfterPostal)
    /\ UNCHANGED <<df, max_records, delay_seconds, df_to_process, clean_addr, clean_pin,
                   processed_df, session, stub, prev>>

\* src/geo.py:182-193: the loop is over; the frame is stored in the session
StoreResults ==
    /\ pc = "loop"
    /\ index = Len(df_to_process)
    /\ processed_df' = Some(Concat(df_to_process, results))
    /\ processed_of' = uploaded_file.val.id
    /\ pc' = "done"
    /\ UNCHANGED <<df, max_records, delay_seconds, df_to_process, results, index, origin,
                   clean_addr, clean_pin, k, log, lastResp, file_name, uploaded_file,
                   uploads, stub, prev>>

Next ==
    \/ \E t \in Tables : Upload(t)
    \/ \E m \in 0..Len(df), d \in Delays : StartGeocoding(m, d)
    \/ RejectRow
    \/ EnterResolver /\ UNCHANGED prev
    \/ \E resp \in GeoResponses : GeopyCall(resp)
    \/ \E resp \in HttpResponses : HttpCall(resp)
    \/ \E resp \in HttpResponses : PostalCall(resp)
    \/ StoreResults

Spec == Init /\ [][Next]_vars

(***************************************************************************)
(* Vocabulary of the properties.                                           *)
(***************************************************************************)
IsCall(e) == e.ev = "call"

\* the provider calls of the current row, in order
Calls == SelectSeq(log, IsCall)

\* the loop is between rows (or over) and the row finished last went
\* through geocode_address_free
ResolverReturned == pc \in {"loop", "done"} /\ index > 0 /\ log # <<>>

\* a request is inside geocode_address_free / try_alternative_geocoder
ResolverRunning == pc \in {"geopy", "http", "postal"}

\* the latest call returned a non-empty, well-formed location
Found == GeopyFound(lastResp) \/ HttpFound(lastResp)

\* the place of a call in the fixed order: 6 formats, 5 variants, 1 lookup
NumFormats == Len(address_formats(<<>>, <<>>))
NumVariants == Len(address_variants(<<>>, <<>>))

Place(provider, cand) ==
    CASE provider = "geopy"  -> cand
      [] provider = "http"   -> NumFormats + cand
      [] provider = "postal" -> NumFormats + NumVariants + cand

\* the text of a cell after trimming
Trimmed(cell) == Strip(CellText(cell))

(***************************************************************************)
(* C1                                                                      *)
(***************************************************************************)
\* the matched address a location carries
MatchedAddress(resp) ==
    IF GeopyFound(resp) THEN resp.address ELSE DisplayName(resp.data[1])

ReturnedLatitude(resp) ==
    IF GeopyFound(resp) THEN resp.latitude ELSE ParseFloat(resp.data[1].lat)

ReturnedLongitude(resp) ==
    IF GeopyFound(resp) THEN resp.longitude ELSE ParseFloat(resp.data[1].lon)

ServiceName(provider) ==
    CASE provider = "geopy"  -> "Nominatim_Geopy"
      [] provider = "http"   -> "Nominatim_HTTP"
      [] provider = "postal" -> "Nominatim_PostalCode"

\* C1 (as amended): as soon as a provider call returns a non-empty,
\* well-formed location, the request is over (no further call is made for
\* it) and its result is SUCCESS with that location's latitude and
\* longitude and the name of the client that answered; the address is the
\* location's matched address for the geopy client and the free-text HTTP
\* search, and "Near <matched address> (Pin Code: <pin>)" for the
\* postal-code lookup.
C1_SuccessReturnsAtOnce ==
    Found =>
        /\ ResolverReturned
        /\ Len(results) = index
        /\ LET r == results[index]
               c == Calls[Len(Calls)]
           IN  /\ r.status = "SUCCESS"
               /\ r.latitude = Some(ReturnedLatitude(lastResp))
               /\ r.longitude = Some(ReturnedLongitude(lastResp))
               /\ r.service = ServiceName(c.provider)
               /\ r.formatted_address =
                    IF c.provider = "postal"
                    THEN Some(NearText(MatchedAddress(lastResp), clean_pin))
                    ELSE Some(MatchedAddress(lastResp))

\* C1 witness: the geopy client failed every candidate and the HTTP search
\* answered one; the row's result names the HTTP search.
C1_Witness ==
    /\ ResolverReturned
    /\ HttpFound(lastResp)
    /\ Calls[Len(Calls)].provider = "http"
    /\ Calls[Len(Calls)].cand = 2
    /\ results[index].service = "Nominatim_HTTP"

\* C1 as stated: the result always carries the location's matched address
\* itself.
C1_Original ==
    Found =>
        /\ ResolverReturned
        /\ Len(results) = index
        /\ LET r == results[index]
               c == Calls[Len(Calls)]
           IN  /\ r.status = "SUCCESS"
               /\ r.latitude = Some(ReturnedLatitude(lastResp))
               /\ r.longitude = Some(ReturnedLongitude(lastResp))
               /\ r.service = ServiceName(c.provider)
               /\ r.formatted_address = Some(MatchedAddress(lastResp))

(***************************************************************************)
(* C2                                                                      *)
(***************************************************************************)
\* C2: within one request the geopy client is asked its candidates in
\* order, each only after every earlier one; the HTTP search and the
\* postal-code lookup are asked only after the geopy client was asked all of
\* its candidates; and no geopy call follows an HTTP call.
C2_ProviderPriority ==
    LET c == Calls
    IN  /\ \A i, j \in 1..Len(c) :
               (i < j /\ c[j].provider = "geopy")
                   => (c[i].provider = "geopy" /\ c[i].cand < c[j].cand)
        /\ \A j \in 1..Len(c) :
               c[j].provider = "geopy"
                   => \A m \in 1..(c[j].cand - 1) :
                          \E i \in 1..(j - 1) : c[i] = CallEvent("geopy", m)
        /\ \A j \in 1..Len(c) :
               c[j].provider # "geopy"
                   => \A m \in 1..NumFormats :
                          \E i \in 1..(j - 1) : c[i] = CallEvent("geopy", m)

\* C2 witness: the HTTP search is on its third candidate.
C2_Witness ==
    /\ pc = "http"
    /\ k = 3
    /\ Len(Calls) = NumFormats + 2

(***************************************************************************)
(* C3                                                                      *)
(***************************************************************************)
\* every candidate the request has was called: the 6 formats, the 5
\* variants, and the postal-code lookup when the pin is at least 5 long
AllCandidatesCalled ==
    /\ \A m \in 1..NumFormats : \E j \in 1..Len(Calls) : Calls[j] = CallEvent("geopy", m)
    /\ \A m \in 1..NumVariants : \E j \in 1..Len(Calls) : Calls[j] = CallEvent("http", m)
    /\ Len(clean_pin) >= 5 => \E j \in 1..Len(Calls) : Calls[j] = CallEvent("postal", 1)

\* C3 (as amended): a request that ends without any call returning a
\* location has called every candidate, and its result has status
\* "ERROR: No results found", no latitude, longitude or address, and
\* service "None".
C3_ExhaustedGivesNoResults ==
    (ResolverReturned /\ ~Found) =>
        /\ AllCandidatesCalled
        /\ results[index] =
             [latitude |-> None, longitude |-> None, formatted_address |-> None,
              status |-> "ERROR: No results found", service |-> "None"]

\* C3 witness: a request ends after its postal-code lookup found nothing.
C3_Witness ==
    /\ ResolverReturned
    /\ ~Found
    /\ Calls[Len(Calls)].provider = "postal"
    /\ results[index].service = "None"

\* C3 as stated: the result of an exhausted request has outcome FAILED with
\* reason "Not Found".
C3_Original ==
    (ResolverReturned /\ ~Found) =>
        /\ results[index].status \in {"FAILED", "FAILED: Not Found", "Not Found"}
        /\ results[index].latitude = None
        /\ results[index].longitude = None
        /\ results[index].formatted_address = None
        /\ results[index].service = "None"

(***************************************************************************)
(* C4, C5, C6                                                              *)
(***************************************************************************)
\* the row finished last
LastRow == df_to_process[index]

RowFinished == pc \in {"loop", "done"} /\ index > 0

HasAlpha(s) == \E j \in 1..Len(s) : IsAlpha(s[j])

\* C4 as stated: a row whose address and pin are both empty after trimming
\* is rejected for its missing input (the code words the rejection
\* "ERROR: Missing address or pin") and no provider is called for it.
C4_EmptyInputMakesNoCall ==
    (RowFinished /\ Trimmed(LastRow.address) = <<>> /\ Trimmed(LastRow.pin) = <<>>) =>
        /\ results[index].status \in
             {"FAILED", "FAILED: Missing Input", "ERROR: Missing address or pin"}
        /\ Calls = <<>>

\* C5 as stated: a row whose address is shorter than 5 characters or has no
\* letter (and is not rejected for missing input) is rejected as too short
\* or invalid and no provider is called for it.
C5_ShortAddressMakesNoCall ==
    (/\ RowFinished
     /\ Trimmed(LastRow.address) # <<>>
     /\ Trimmed(LastRow.pin) # <<>>
     /\ \/ Len(Trimmed(LastRow.address)) < 5
        \/ ~HasAlpha(Trimmed(LastRow.address))) =>
        /\ results[index].status \in
             {"FAILED", "FAILED: Too short or invalid", "ERROR: Too short or invalid"}
        /\ Calls = <<>>

\* the query a call submits
QueryOf(e, a, p) ==
    CASE e.provider = "geopy"  -> address_formats(a, p)[e.cand]
      [] e.provider = "http"   -> address_variants(a, p)[e.cand]
      [] e.provider = "postal" -> p

\* the template of a call refers to the pin (the address): the query changes
\* when the pin (the address) does
RefersToPin(e) == QueryOf(e, <<"a">>, <<"1">>) # QueryOf(e, <<"a">>, <<"2">>)

RefersToAddress(e) == QueryOf(e, <<"a">>, <<"1">>) # QueryOf(e, <<"b">>, <<"1">>)

\* C6 as stated: no call submits a query built from a template that refers
\* to an empty field.
C6_NoTemplateOfEmptyField ==
    \A j \in 1..Len(Calls) :
        /\ RefersToPin(Calls[j]) => clean_pin # <<>>
        /\ RefersToAddress(Calls[j]) => clean_addr # <<>>

(***************************************************************************)
(* C7                                                                      *)
(***************************************************************************)
\* C7 (as amended): the stored frame holds the first n rows of the upload,
\* n being all of them when max_records is 0 and min(max_records, rows)
\* otherwise; its i-th row is the i-th uploaded row joined with the result
\* produced for that row; none of these n rows is dropped or repeated.
C7_OutputIsHeadInOrder ==
    pc = "done" =>
        LET out == processed_df.val
            n == IF max_records = 0 \/ max_records > Len(df) THEN Len(df) ELSE max_records
        IN  /\ processed_df.some
            /\ Len(out) = n
            /\ \A j \in 1..n :
                   /\ out[j].row = df[j]
                   /\ origin[j] = j - 1
                   /\ out[j].result = results[j]
                   /\ (out[j].result.status = "ERROR: Missing address or pin")
                        <=> (CellText(df[j].address) = <<>> \/ CellText(df[j].pin) = <<>>)

\* C7 witness: two different rows with different results were stored.
C7_Witness ==
    /\ pc = "done"
    /\ Len(df) = 2
    /\ Len(processed_df.val) = 2
    /\ df[1] # df[2]
    /\ results[1].status # results[2].status

\* C7 as stated: whatever max_records is, the stored frame has as many rows
\* as the upload, the i-th being the i-th uploaded row.
C7_Original ==
    pc = "done" =>
        /\ Len(processed_df.val) = Len(df)
        /\ \A j \in 1..Len(df) : processed_df.val[j].row = df[j]

(***************************************************************************)
(* C8                                                                      *)
(***************************************************************************)
\* the latest provider call failed: it raised, answered a status other than
\* 200, or answered nothing usable
CallFailed == lastResp # NoResponse /\ ~Found

\* C8: whatever the provider calls do, every row the loop has passed left
\* exactly one result, in the row's place; a request under way belongs to a
\* row not yet passed; and the loop ends with one result per row it was
\* given.
C8_OneResultPerRow ==
    /\ Len(results) = index
    /\ origin = [j \in 1..index |-> j - 1]
    /\ index <= Len(df_to_process)
    /\ ResolverRunning => index < Len(df_to_process)
    /\ pc = "done" => Len(results) = Len(df_to_process)

\* C8 witness: the first row's calls all failed, the last of them by an
\* exception, and the loop went on and finished the second row.
C8_Witness ==
    /\ pc = "done"
    /\ Len(results) = 2
    /\ results[1].status = "ERROR: No results found"
    /\ log # <<>>
    /\ CallFailed
    /\ HttpRaises(lastResp)

(***************************************************************************)
(* C9                                                                      *)
(***************************************************************************)
\* a timeout or a service-level error
Transient ==
    \/ lastResp.kind \in {"timeout", "service_error"}
    \/ lastResp.kind = "response" /\ lastResp.status_code = 503

\* how many times the pair of the latest call was called
TimesCalled(e) == Cardinality({j \in 1..Len(Calls) : Calls[j] = e})

\* C9 (as amended): the attempt limit is 1.  After a transient failure the
\* request goes on with the next candidate in the fixed order, never with
\* the same one, and no (provider, candidate) pair is called more than once
\* within a request.
C9_OneAttemptPerCandidate ==
    /\ \A j \in 1..Len(Calls) : TimesCalled(Calls[j]) = 1
    /\ \A j \in 1..Len(Calls) : Place(Calls[j].provider, Calls[j].cand) = j
    /\ (Transient /\ ResolverRunning) =>
           Place(pc, k) = Place(Calls[Len(Calls)].provider, Calls[Len(Calls)].cand) + 1

\* C9 witness: a timeout of the third format; the fourth is next.
C9_Witness ==
    /\ pc = "geopy"
    /\ k = 4
    /\ lastResp.kind = "timeout"
    /\ Calls[Len(Calls)] = CallEvent("geopy", 3)

\* C9 as stated: after a transient failure of a pair called fewer than
\* N = 2 times, the request is about to call the same pair again.
C9_Original ==
    (/\ Transient
     /\ Calls # <<>>
     /\ TimesCalled(Calls[Len(Calls)]) < 2) =>
        /\ pc = Calls[Len(Calls)].provider
        /\ k = Calls[Len(Calls)].cand

(***************************************************************************)
(* C10                                                                     *)
(***************************************************************************)
\* C10 (as amended): every provider call is immediately preceded by a
\* sleep of exactly the delay chosen on the slider, without jitter; no two
\* calls follow each other without that sleep between them.
C10_SleepBeforeEveryCall ==
    \A j \in 1..Len(log) :
        IsCall(log[j]) =>
            /\ j > 1
            /\ log[j - 1] = [ev |-> "sleep", secs |-> delay_seconds]

\* C10 witness: several calls were made under the longest delay.
C10_Witness ==
    /\ delay_seconds = MaxDelay
    /\ Len(Calls) >= 3
    /\ index = 1

\* C10 as stated: the sleep before a call lasts the base delay plus a
\* jitter, that is, longer than the base delay.
C10_Original ==
    \A j \in 1..Len(log) :
        IsCall(log[j]) =>
            /\ j > 1
            /\ log[j - 1].ev = "sleep"
            /\ log[j - 1].secs > delay_seconds

(***************************************************************************)
(* C11                                                                     *)
(***************************************************************************)
\* what the template of a call refers to
FieldsOf(e) ==
    IF RefersToAddress(e) /\ RefersToPin(e) THEN "both"
    ELSE IF RefersToAddress(e) THEN "address"
    ELSE "pin"

\* the fields of the calls made so far to one client, in order
FieldsCalled(provider) ==
    LET Mine(e) == e.provider = provider
        mine == SelectSeq(Calls, Mine)
    IN  [j \in 1..Len(mine) |-> FieldsOf(mine[j])]

IsPrefix(s, t) == Len(s) <= Len(t) /\ s = SubSeq(t, 1, Len(s))

\* C11 (as amended): each client tries the candidates holding both address
\* and pin first, then the address with the country, then the pin-only
\* candidate, and last the bare address: the pin-only candidate is the last
\* but one of each list, not the last.
C11_CandidateOrder ==
    /\ IsPrefix(FieldsCalled("geopy"),
                <<"both", "both", "both", "address", "pin", "address">>)
    /\ IsPrefix(FieldsCalled("http"), <<"both", "both", "address", "pin", "address">>)
    /\ IsPrefix(FieldsCalled("postal"), <<"pin">>)

\* C11 witness: the geopy client was asked all six formats.
C11_Witness ==
    /\ pc = "http"
    /\ k = 1
    /\ Len(FieldsCalled("geopy")) = 6

FieldRank(f) == CASE f = "both" -> 1 [] f = "address" -> 2 [] f = "pin" -> 3

\* C11 as stated: within each client's list no candidate follows a less
\* specific one (both fields, then address only, then pin only), so that
\* the pin-only candidate comes last.
C11_Original ==
    \A provider \in {"geopy", "http"} :
        LET f == FieldsCalled(provider)
        IN  \A i, j \in 1..Len(f) : i < j => FieldRank(f[i]) <= FieldRank(f[j])

(***************************************************************************)
(* C13                                                                     *)
(***************************************************************************)
\* the results the loop has appended, and those of the stored frame
AllResults ==
    {results[j] : j \in 1..Len(results)}
        \cup (IF processed_df.some
              THEN {processed_df.val[j].result : j \in 1..Len(processed_df.val)}
              ELSE {})

\* C13 (as amended): every result has status SUCCESS, "ERROR: No results
\* found" or "ERROR: Missing address or pin" (FAILED never occurs), and
\* service Nominatim_Geopy, Nominatim_HTTP, Nominatim_PostalCode or "None":
\* three service names besides "None".
C13_StatusAndServiceValues ==
    \A r \in AllResults :
        /\ r.status \in {"SUCCESS", "ERROR: No results found", "ERROR: Missing address or pin"}
        /\ r.service \in {"Nominatim_Geopy", "Nominatim_HTTP", "Nominatim_PostalCode", "None"}

\* C13 witness: a stored frame with a row answered by the postal-code
\* lookup and a row rejected for its missing input.
C13_Witness ==
    /\ pc = "done"
    /\ Len(processed_df.val) = 2
    /\ processed_df.val[1].result.service = "Nominatim_PostalCode"
    /\ processed_df.val[2].result.status = "ERROR: Missing address or pin"

\* C13 as stated: the service is the primary client's name, the secondary
\* client's name or "None".
C13_Original ==
    \A r \in AllResults :
        /\ r.status \in {"SUCCESS", "FAILED", "ERROR: No results found",
                         "ERROR: Missing address or pin"}
        /\ r.service \in {"Nominatim_Geopy", "Nominatim_HTTP", "None"}

(***************************************************************************)
(* C14                                                                     *)
(***************************************************************************)
\* the row of the request under way, or of the one that returned last
RequestRow == IF ResolverRunning THEN df_to_process[index + 1] ELSE df_to_process[index]

\* digits followed by ".0"
DigitsDotZero(s) ==
    /\ Len(s) >= 3
    /\ s[Len(s) - 1] = "."
    /\ s[Len(s)] = "0"
    /\ IsNumeric(SubSeq(s, 1, Len(s) - 2))

\* C14 as stated: a pin that arrives as digits followed by ".0" is used, in
\* every query and in the postal-code lookup, as the digits alone.
C14_PinSuffixStripped ==
    ((ResolverRunning \/ ResolverReturned) /\ DigitsDotZero(Trimmed(RequestRow.pin))) =>
        clean_pin = SubSeq(Trimmed(RequestRow.pin), 1, Len(Trimmed(RequestRow.pin)) - 2)

(***************************************************************************)
(* C16                                                                     *)
(***************************************************************************)
\* the latest call raised an exception that is neither a timeout nor a
\* service error
NonTransient ==
    /\ Calls # <<>>
    /\ IF Calls[Len(Calls)].provider = "geopy"
       THEN lastResp.kind = "exception"
       ELSE HttpRaises(lastResp) /\ lastResp.kind # "timeout"

\* C16: after an exception that is no timeout and no service error, the
\* candidate that raised is not called again and the request goes on with
\* exactly the next one in the fixed order (the next of the same client, the
\* first of the HTTP search after the last format, the postal-code lookup
\* after the last variant when the pin is at least 5 long); the request ends
\* only when no candidate is left, and then with NoResults.
C16_ExceptionAdvancesByOne ==
    NonTransient =>
        /\ TimesCalled(Calls[Len(Calls)]) = 1
        /\ ResolverRunning =>
               Place(pc, k) = Place(Calls[Len(Calls)].provider, Calls[Len(Calls)].cand) + 1
        /\ ~ResolverRunning =>
               /\ AllCandidatesCalled
               /\ Len(Calls) = NumFormats + NumVariants + (IF Len(clean_pin) >= 5 THEN 1 ELSE 0)
               /\ results[index].status = "ERROR: No results found"

\* C16 witness: the last format raised; the HTTP search's first variant is next.
C16_Witness ==
    /\ pc = "http"
    /\ k = 1
    /\ lastResp.kind = "exception"
    /\ Calls[Len(Calls)] = CallEvent("geopy", 6)

(***************************************************************************)
(* C18                                                                     *)
(***************************************************************************)
\* C18: in every result, the status is SUCCESS exactly when latitude and
\* longitude are both present, and exactly when the service is not "None";
\* a result that is not SUCCESS has no latitude, longitude or address.
C18_ResultWellFormed ==
    \A r \in AllResults :
        /\ (r.status = "SUCCESS") <=> (r.latitude.some /\ r.longitude.some)
        /\ (r.status = "SUCCESS") <=> (r.service # "None")
        /\ r.status # "SUCCESS" =>
               (r.latitude = None /\ r.longitude = None /\ r.formatted_address = None)

\* C18 witness: a batch with one result of each kind.
C18_Witness ==
    /\ pc = "done"
    /\ Len(results) = 2
    /\ results[1].status = "SUCCESS"
    /\ results[2].status = "ERROR: No results found"

(***************************************************************************)
(* C19                                                                     *)
(***************************************************************************)
\* C19: the postal-code lookup is made at most once per request, as the
\* twelfth call, after all 6 formats and all 5 variants, and only with a
\* pin at least 5 long; a request whose pin is shorter ends after the last
\* variant.
C19_PostalLookupLast ==
    /\ Len(FieldsCalled("postal")) <= 1
    /\ \A j \in 1..Len(Calls) :
           Calls[j].provider = "postal" =>
               /\ j = NumFormats + NumVariants + 1
               /\ Len(clean_pin) >= 5
               /\ \A m \in 1..NumFormats : Calls[m] = CallEvent("geopy", m)
               /\ \A m \in 1..NumVariants : Calls[NumFormats + m] = CallEvent("http", m)
    /\ pc = "postal" => Len(clean_pin) >= 5
    /\ (ResolverReturned /\ ~Found /\ Len(clean_pin) < 5) =>
           Calls[Len(Calls)] = CallEvent("http", NumVariants)

\* C19 witness: a request with a pin of 4 characters ended after the last variant.
C19_Witness ==
    /\ ResolverReturned
    /\ ~Found
    /\ Len(clean_pin) = 4
    /\ Len(Calls) = NumFormats + NumVariants

(***************************************************************************)
(* C17                                                                     *)
(***************************************************************************)
\* the calls of a request under way: each of them answers, raises or times
\* out (timeout=15, src/geo.py:55, 87, 101), so the loops go on by themselves
ResolverStep ==
    \/ \E resp \in GeoResponses : GeopyCall(resp)
    \/ \E resp \in HttpResponses : HttpCall(resp)
    \/ \E resp \in HttpResponses : PostalCall(resp)

LiveSpec == Init /\ [][Next]_vars /\ WF_vars(ResolverStep)

CallsOf(provider) == Len(FieldsCalled(provider))

\* no request makes more than 12 calls: 6 geopy, 5 HTTP searches, 1 lookup
CallBound ==
    /\ Len(Calls) <= 12
    /\ CallsOf("geopy") <= 6
    /\ CallsOf("http") <= 5
    /\ CallsOf("postal") <= 1

\* C17: whatever the providers answer (a location, nothing, an exception,
\* a status other than 200), a request never makes more than 12 calls (6
\* through the geopy client, 5 HTTP searches, 1 postal-code lookup) and
\* always comes back with its result; so the rows of a batch never take more
\* than 12 calls each.
C17_TerminatesWithinTwelveCalls ==
    /\ []CallBound
    /\ ResolverRunning ~> (RowFinished /\ Len(results) = index)

\* C17 witness: a request returned after its twelfth call.
C17_Witness ==
    /\ ResolverReturned
    /\ Len(Calls) = 12
    /\ CallsOf("geopy") = 6
    /\ CallsOf("http") = 5
    /\ CallsOf("postal") = 1

(***************************************************************************)
(* C15                                                                     *)
(***************************************************************************)
\* tables of at most one row
SessionTables == {t \in Tables : Len(t) <= 1}

\* a session: files are uploaded, replaced and removed, and batches run
SessionNext ==
    \/ \E t \in SessionTables : Upload(t)
    \/ \E name \in Names, t \in SessionTables : Reupload(name, t)
    \/ RemoveFile
    \/ Rerun
    \/ \E m \in 0..Len(df), d \in Delays : StartGeocoding(m, d)
    \/ RejectRow
    \/ EnterResolver /\ UNCHANGED prev
    \/ \E resp \in GeoResponses : GeopyCall(resp)
    \/ \E resp \in HttpResponses : HttpCall(resp)
    \/ \E resp \in HttpResponses : PostalCall(resp)
    \/ StoreResults

SessionSpec == Init /\ [][SessionNext]_vars

\* src/geo.py:200: the script's run has ended and its last block showed the
\* stored results
Displayed == pc \in {"nofile", "form"} /\ processed_df.some

\* C15 as stated: the results displayed are those computed from the upload
\* that is in the uploader now: never those of an earlier upload, be it a
\* different file of the same name, and none once the file is removed.
C15_DisplayedResultsAreOfCurrentUpload ==
    Displayed => (uploaded_file.some /\ processed_of = uploaded_file.val.id)

(***************************************************************************)
(* C12                                                                     *)
(***************************************************************************)
\* answers that make the request go on to its next candidate
FailingGeo == {r \in GeoResponses : ~GeopyFound(r)}
FailingHttp == {r \in HttpResponses : ~HttpFound(r)}

\* the stubbed providers' answers by place (1-6 the geopy client, 7-11 the
\* HTTP search, 12 the postal-code lookup): g or h before place j, a
\* location from place j on
StubAt(j, g, h) ==
    [i \in 1..(NumFormats + NumVariants + 1) |->
        IF i <= NumFormats
        THEN (IF i < j THEN g ELSE CHOOSE r \in GeoResponses : GeopyFound(r))
        ELSE (IF i < j THEN h ELSE CHOOSE r \in HttpResponses : HttpFound(r))]

Stubs ==
    {StubAt(j, g, h) : j \in 1..(NumFormats + NumVariants + 2), g \in FailingGeo, h \in FailingHttp}

\* a sheet with the same row twice
StubTables == {<<r, r>> : r \in RowInputs}

\* the providers are replaced by stubs with fixed answers
InstallStub(s) ==
    /\ pc = "nofile"
    /\ stub = NoStub
    /\ stub' = s
    /\ UNCHANGED <<pc, df, max_records, delay_seconds, df_to_process, results, index, origin,
                   clean_addr, clean_pin, k, log, lastResp, processed_df, session, prev>>

\* what is kept of the request that has returned when the next one starts
LastRequest ==
    IF ResolverReturned
    THEN Some([addr |-> clean_addr, pin |-> clean_pin, delay |-> delay_seconds, log |-> log])
    ELSE None

\* a batch against stubbed providers: every call gets the stub's answer for
\* its place
StubNext ==
    \/ \E s \in Stubs : InstallStub(s)
    \/ \E t \in StubTables : stub # NoStub /\ Upload(t)
    \/ \E m \in 0..Len(df), d \in Delays : StartGeocoding(m, d)
    \/ RejectRow
    \/ EnterResolver /\ prev' = LastRequest
    \/ stub # NoStub /\ GeopyCall(stub[Place("geopy", k)])
    \/ stub # NoStub /\ HttpCall(stub[Place("http", k)])
    \/ stub # NoStub /\ PostalCall(stub[Place("postal", k)])
    \/ StoreResults

StubSpec == Init /\ [][StubNext]_vars

\* the request that returned last has the inputs of the one before it
SameRequestAgain ==
    /\ ResolverReturned
    /\ index >= 2
    /\ prev.some
    /\ prev.val.addr = clean_addr
    /\ prev.val.pin = clean_pin
    /\ prev.val.delay = delay_seconds

\* C12: against stubbed providers with fixed answers, a request with the
\* same normalized address, pin and delay as the request before it makes
\* the same sleeps and calls in the same order and returns the same result
\* (latitude, longitude, address, status and service).
C12_SameRequestSameOutcome ==
    SameRequestAgain =>
        /\ results[index] = results[index - 1]
        /\ log = prev.val.log

\* C12 witness: the same request was answered twice by the third HTTP search.
C12_Witness ==
    /\ SameRequestAgain
    /\ results[index].service = "Nominatim_HTTP"
    /\ Calls[Len(Calls)] = CallEvent("http", 3)
    /\ Len(prev.val.log) = Len(log)

====
